---------------------------- MODULE Spec2Model ----------------------------
(***************************************************************************)
(* rregistry: the manifest endpoints of src/manifest/mod.rs (HEAD, GET and *)
(* DELETE of /v2/<name>/manifests/<reference>) over a Redis store.         *)
(*                                                                         *)
(* Strings are sequences of one-character strings, so that the three       *)
(* grammars of the request validator and the key formats are computed and  *)
(* not assumed.  The store maps Redis keys to typed values (a string of    *)
(* bytes, or a set of members); a key that is absent reads as Nil.         *)
(***************************************************************************)
EXTENDS Integers, Sequences, FiniteSets, TLC

(***************************************************************************)
(* Bounds of the model.                                                    *)
(***************************************************************************)
\* Largest number of entries (manifest keys plus alias-set members) of an
\* initial store.
MaxStore == 5

(***************************************************************************)
(* Characters and the strings of the model.                                *)
(***************************************************************************)
LowerAlnum == {"a", "b", "c", "r", "s", "x", "y", "0", "1"}
UpperAlpha == {"A", "R"}

\* [a-z0-9]+([seps][a-z0-9]+)* anchored at both ends: runs of lower-case
\* alphanumerics separated by single separator characters.
MatchComponents(s, seps) ==
    /\ Len(s) >= 1
    /\ \A i \in 1..Len(s) : s[i] \in LowerAlnum \cup seps
    /\ s[1] \in LowerAlnum
    /\ s[Len(s)] \in LowerAlnum
    /\ \A i \in 1..(Len(s) - 1) : ~(s[i] \in seps /\ s[i + 1] \in seps)

\* ^[a-z0-9]+([._-][a-z0-9]+)*(/[a-z0-9]+([._-][a-z0-9]+)*)*$
\* a "/" starts a new path segment, which is again a component: every
\* separator, "/" included, stands between two alphanumeric runs.
is_manifest_name_valid(name) ==
    MatchComponents(name, {".", "_", "-", "/"})

\* is_tag_name_valid with the first character made optional
is_tag_name_valid_or_empty(name) ==
    /\ Len(name) <= 128
    /\ \A i \in 1..Len(name) :
           name[i] \in LowerAlnum \cup UpperAlpha \cup {".", "_", "-"}

\* ^[a-zA-Z0-9_][a-zA-Z0-9._-]{0,127}$
is_tag_name_valid(name) ==
    /\ Len(name) >= 1
    /\ Len(name) <= 128
    /\ name[1] \in LowerAlnum \cup UpperAlpha \cup {"_"}
    /\ \A i \in 2..Len(name) :
           name[i] \in LowerAlnum \cup UpperAlpha \cup {".", "_", "-"}

\* ^[a-z0-9]+([+._-][a-z0-9]+)*:[a-zA-Z0-9=_-]+$
is_accepted_digest(digest) ==
    \E i \in 1..Len(digest) :
        /\ digest[i] = ":"
        /\ MatchComponents(SubSeq(digest, 1, i - 1), {"+", ".", "_", "-"})
        /\ i < Len(digest)
        /\ \A j \in (i + 1)..Len(digest) :
               digest[j] \in LowerAlnum \cup UpperAlpha \cup {"=", "_", "-"}

is_valid_request(name, reference) ==
    /\ is_manifest_name_valid(name)
    /\ (is_tag_name_valid(reference) \/ is_accepted_digest(reference))

(***************************************************************************)
(* Keys.                                                                   *)
(***************************************************************************)
\* The two fixed words of a key, each written as one symbol.
MANIFEST_PREFIX_KEY == <<"manifest">>
MANIFEST_ALIAS_SUFFIX_KEY == <<"alias">>
Sep == <<":", ":">>

\* format!("{}::{}::{}", MANIFEST_PREFIX_KEY, name, reference)
generate_manifest_key(name, reference) ==
    MANIFEST_PREFIX_KEY \o Sep \o name \o Sep \o reference

\* format!("{}::{}::{}::{}", MANIFEST_PREFIX_KEY, name, digest, MANIFEST_ALIAS_SUFFIX_KEY)
generate_alias_key(name, digest) ==
    MANIFEST_PREFIX_KEY \o Sep \o name \o Sep \o digest \o Sep \o MANIFEST_ALIAS_SUFFIX_KEY

(***************************************************************************)
(* Manifests and their stored bytes.                                       *)
(***************************************************************************)
\* The fields of Manifest that the endpoints read or return; layers and
\* annotations are carried along by the encoding like media_type is.
MakeManifest(version, media, digest) ==
    [schema_version |-> version, media_type |-> media, config |-> [digest |-> digest]]

NoManifest == MakeManifest(0, "", <<>>)

\* bincode writes the fields one after the other, in declaration order.
Serialize(m) == <<m.schema_version, m.media_type, m.config.digest>>

\* bincode::deserialize: fails when the bytes end before the last field.
Deserialize(bytes) ==
    IF Len(bytes) = 3
    THEN [ok |-> TRUE, manifest |-> MakeManifest(bytes[1], bytes[2], bytes[3])]
    ELSE [ok |-> FALSE, manifest |-> NoManifest]

(***************************************************************************)
(* The Redis commands the endpoints issue.  A store is a function from     *)
(* the keys that exist to their values.                                    *)
(***************************************************************************)
StringValue(bytes) == [type |-> "string", bytes |-> bytes, members |-> {}]
SetValue(members) == [type |-> "set", bytes |-> <<>>, members |-> members]
Nil == [type |-> "nil", bytes |-> <<>>, members |-> {}]

Val(s, key) == IF key \in DOMAIN s THEN s[key] ELSE Nil

Without(s, key) == [k \in DOMAIN s \ {key} |-> s[k]]

With(s, key, value) == [k \in DOMAIN s \cup {key} |-> IF k = key THEN value ELSE s[k]]

\* EXISTS key
EXISTS(s, key) == Val(s, key).type # "nil"

\* GET key: the bytes, Nil, or a WRONGTYPE error
GET(s, key) ==
    LET v == Val(s, key)
    IN  CASE v.type = "string" -> [kind |-> "data", bytes |-> v.bytes]
          [] v.type = "nil" -> [kind |-> "nil", bytes |-> <<>>]
          [] OTHER -> [kind |-> "error", bytes |-> <<>>]

\* GETDEL that reads the key and leaves it in place, as GET does
GETDEL_as_GET(s, key) == [reply |-> GET(s, key), store |-> s]

\* GETDEL key: GET, and the key is removed when it held a string
GETDEL(s, key) ==
    LET got == GET(s, key)
    IN  [reply |-> got, store |-> IF got.kind = "data" THEN Without(s, key) ELSE s]

\* DEL key: the number of keys removed
DEL(s, key) ==
    IF key \in DOMAIN s
    THEN [count |-> 1, store |-> Without(s, key)]
    ELSE [count |-> 0, store |-> s]

\* SMEMBERS key: the members (none for a key that does not exist)
SMEMBERS(s, key) ==
    LET v == Val(s, key)
    IN  CASE v.type = "set" -> [kind |-> "ok", members |-> v.members]
          [] v.type = "nil" -> [kind |-> "ok", members |-> {}]
          [] OTHER -> [kind |-> "error", members |-> {}]

\* SREM key member: the number of members removed; a set left empty is
\* removed with its key
SREM(s, key, member) ==
    LET v == Val(s, key)
    IN  CASE v.type = "set" /\ member \in v.members ->
                [kind |-> "ok", count |-> 1,
                 store |-> IF v.members = {member}
                           THEN Without(s, key)
                           ELSE With(s, key, SetValue(v.members \ {member}))]
          [] v.type = "string" -> [kind |-> "error", count |-> 0, store |-> s]
          [] OTHER -> [kind |-> "ok", count |-> 0, store |-> s]

(***************************************************************************)
(* Manifest::from_redis_value                                              *)
(***************************************************************************)
\* Value::Data -> Ok(bincode::deserialize(bytes).unwrap()), Value::Nil -> Err
from_redis_value(reply) ==
    CASE reply.kind = "data" ->
             IF Deserialize(reply.bytes).ok
             THEN [kind |-> "ok", manifest |-> Deserialize(reply.bytes).manifest]
             ELSE [kind |-> "panic", manifest |-> NoManifest]
      [] reply.kind = "nil" -> [kind |-> "err", manifest |-> NoManifest]
      [] OTHER -> [kind |-> "err", manifest |-> NoManifest]

(***************************************************************************)
(* manifest_exist and manifest                                             *)
(***************************************************************************)
\* manifest_exist without the check of the alias key
manifest_exist_key_only(s, name, reference) ==
    EXISTS(s, generate_manifest_key(name, reference))

manifest_exist(s, name, reference) ==
    LET exists_key == EXISTS(s, generate_manifest_key(name, reference))
        exists_alias == EXISTS(s, generate_alias_key(name, reference))
    IN  exists_key \/ exists_alias

\* manifest without the lookup through the alias set
manifest_direct_only(s, name, reference, chain) ==
    LET got == from_redis_value(GET(s, generate_manifest_key(name, reference)))
    IN  IF got.kind = "ok" THEN {got} ELSE {[kind |-> "panic", manifest |-> NoManifest]}

\* The outcomes of manifest(name, reference, con) on store s.  SMEMBERS
\* lists a set in an order Redis does not specify, so the first live member
\* is any live member.  The store does not change during the call, so a
\* reference met again on the way (chain) is met for ever: the recursion
\* has no end and the thread's stack overflows.
RECURSIVE manifest(_, _, _, _)
manifest(s, name, reference, chain) ==
    LET got == from_redis_value(GET(s, generate_manifest_key(name, reference)))
        search_alias == SMEMBERS(s, generate_alias_key(name, reference))
        live == {a \in search_alias.members : manifest_exist(s, name, a)}
    IN  CASE got.kind = "ok" -> {got}
          [] got.kind = "panic" -> {got}
          [] OTHER ->
              IF search_alias.kind # "ok"
              THEN {[kind |-> "err", manifest |-> NoManifest]}
              ELSE IF live = {}
              THEN {[kind |-> "panic", manifest |-> NoManifest]}
              ELSE UNION {IF a \in chain \cup {reference}
                          THEN {[kind |-> "overflow", manifest |-> NoManifest]}
                          ELSE manifest(s, name, a, chain \cup {reference}) : a \in live}

(***************************************************************************)
(* delete and its helpers.  Counts are i8: an addition past I8Max panics   *)
(* in a build with overflow checks and wraps in a build without them.      *)
(***************************************************************************)
I8Max == 127

I8Wrap(n) == ((n + I8Max + 1) % (2 * (I8Max + 1))) - (I8Max + 1)

\* The subsets of S with n elements.
RECURSIVE SubsetsOfSize(_, _)
SubsetsOfSize(S, n) ==
    IF n = 0
    THEN {{}}
    ELSE UNION {{K \cup {x} : K \in SubsetsOfSize(S \ {x}, n - 1)} : x \in S}

\* delete_alias(name, con, alias): for each member, DEL its manifest key
\* and add the reply (1 for a key that was there, 0 otherwise) to sum.  The
\* members name different keys, so whatever the order the loop ends with
\* the keys that were there (present) removed and sum their number,
\* wrapped.  With overflow checks the loop panics in the addition that
\* passes I8Max: by then I8Max + 1 of the present keys are removed, which
\* ones depends on the order SMEMBERS listed them in (at).
delete_alias(s, name, alias) ==
    LET keys == {generate_manifest_key(name, alias_key) : alias_key \in alias}
        present == keys \cap DOMAIN s
        sum == Cardinality(present)
    IN  [store |-> [k \in DOMAIN s \ keys |-> s[k]],
         sum |-> I8Wrap(sum),
         overflow |-> sum > I8Max,
         at |-> IF sum > I8Max
                THEN {[k \in DOMAIN s \ (present \ kept) |-> s[k]] :
                         kept \in SubsetsOfSize(present, sum - (I8Max + 1))}
                ELSE {}]

\* delete_alias_key that removes every alias set of the store
delete_alias_key_of_all(s, alias_key) ==
    [count |-> DEL(s, alias_key).count,
     store |-> [k \in {q \in DOMAIN s : s[q].type # "set"} |-> s[k]]]

\* delete_alias_key that counts the key whether or not it was there
delete_alias_key_counted(s, alias_key) ==
    [count |-> 1, store |-> DEL(s, alias_key).store]

delete_alias_key(s, alias_key) == DEL(s, alias_key)

DeleteOk(count, s) == [kind |-> "ok", count |-> count, store |-> s]
DeletePanic(s) == [kind |-> "panic", count |-> 0, store |-> s]

\* search_alias_and_delete_it that leaves the alias set in place
search_alias_and_delete_it_keeping_set(s, name, reference) ==
    LET search_alias == SMEMBERS(s, generate_alias_key(name, reference))
        tags == delete_alias(s, name, search_alias.members)
    IN  {DeleteOk(tags.sum, tags.store)}

\* The outcomes of search_alias_and_delete_it(name, reference, con) on s.
search_alias_and_delete_it(s, name, reference) ==
    LET alias_key == generate_alias_key(name, reference)
        search_alias == SMEMBERS(s, alias_key)
        tags == delete_alias(s, name, search_alias.members)
        set == delete_alias_key(tags.store, alias_key)
        total == tags.sum + set.count
    IN  IF search_alias.kind # "ok"
        THEN {DeleteOk(0, s)}
        ELSE (IF tags.overflow THEN {DeletePanic(p) : p \in tags.at} ELSE {})
             \cup (IF total > I8Max THEN {DeletePanic(set.store)} ELSE {})
             \cup {DeleteOk(I8Wrap(total), set.store)}

\* remove_tag_relation_from_digest that drops the whole alias set
remove_tag_relation_from_digest_dropping_set(s, name, reference, m) ==
    {DeleteOk(DEL(s, generate_alias_key(name, m.config.digest)).count,
              DEL(s, generate_alias_key(name, m.config.digest)).store)}

\* The outcomes of remove_tag_relation_from_digest(name, reference, con, manifest).
remove_tag_relation_from_digest(s, name, reference, m) ==
    LET alias_key == generate_alias_key(name, m.config.digest)
        response == SREM(s, alias_key, reference)
    IN  IF response.kind # "ok"
        THEN {DeletePanic(s)}
        ELSE {DeleteOk(response.count, response.store)}

\* The outcomes of delete(name, reference, con) on s.
delete(s, name, reference) ==
    LET key == generate_manifest_key(name, reference)
        getdel == GETDEL(s, key)
        result == from_redis_value(getdel.reply)
    IN  CASE getdel.reply.kind = "error" -> {DeletePanic(s)}
          [] result.kind = "panic" -> {DeletePanic(getdel.store)}
          [] result.kind = "ok" ->
                IF is_accepted_digest(reference)
                THEN search_alias_and_delete_it(getdel.store, name, reference)
                ELSE remove_tag_relation_from_digest(getdel.store, name, reference,
                                                     result.manifest)
          [] OTHER -> search_alias_and_delete_it(getdel.store, name, reference)

(***************************************************************************)
(* The stores and the requests of the model.                               *)
(***************************************************************************)
Repository == <<"r">>
Tags == {<<"a">>, <<"b">>}
Digests == {<<"s", ":", "x">>, <<"s", ":", "y">>}
References == Tags \cup Digests

\* What a manifest key holds at the start: the bytes of a manifest whose
\* config names either digest, as Manifest::write_redis_args writes them.
StoredManifests == {MakeManifest(2, "m", d) : d \in Digests}
StoredBytes == {Serialize(m) : m \in StoredManifests}

\* An initial store: some manifest keys with bytes, some digests with a set
\* of aliasing tags.
StoreOf(held, sets) ==
    [k \in {generate_manifest_key(Repository, r) : r \in DOMAIN held}
           \cup {generate_alias_key(Repository, r) : r \in {q \in DOMAIN sets : sets[q] # {}}}
       |-> IF \E r \in DOMAIN held : k = generate_manifest_key(Repository, r)
           THEN StringValue(held[CHOOSE r \in DOMAIN held : k = generate_manifest_key(Repository, r)])
           ELSE SetValue(sets[CHOOSE r \in DOMAIN sets : k = generate_alias_key(Repository, r)])]

RECURSIVE Sum(_, _)
Sum(f, S) == IF S = {} THEN 0 ELSE LET x == CHOOSE y \in S : TRUE IN f[x] + Sum(f, S \ {x})

InitialStores ==
    {StoreOf(held, sets) :
        <<held, sets>> \in
            {hs \in (UNION {[R -> StoredBytes] : R \in SUBSET References})
                    \X [Digests -> SUBSET Tags] :
                Cardinality(DOMAIN hs[1])
                  + Sum([r \in Digests |-> Cardinality(hs[2][r])], Digests)
                  <= MaxStore}}

\* Requests: every reference of the stores, and requests the validator
\* rejects.
Requests ==
    {<<Repository, r>> : r \in References}
    \cup {<<<<"R">>, <<"a">>>>, <<Repository, <<>>>>, <<Repository, <<"A", ":", "x">>>>}

(***************************************************************************)
(* State.                                                                  *)
(***************************************************************************)
VARIABLES
    store,      \* the Redis store
    before,     \* the store when the last request arrived
    request,    \* the last request: method, name, reference
    response,   \* its response
    calls       \* the engine calls in flight, when their backend commands are followed

vars == <<store, before, request, response, calls>>

\* No call in flight is followed: a handler runs from request to response.
NoCalls == <<>>

Response(status, connected, kind, found, m, count) ==
    [status |-> status, connected |-> connected, kind |-> kind,
     found |-> found, manifest |-> m, count |-> count]

Init ==
    /\ store \in InitialStores
    /\ before = store
    /\ request = [method |-> "none", name |-> <<>>, reference |-> <<>>]
    /\ response = Response("none", FALSE, "none", FALSE, NoManifest, 0)
    /\ calls = NoCalls

\* HEAD /v2/<name>/manifests/<reference>
check_manifest(name, reference) ==
    /\ UNCHANGED calls
    /\ before' = store
    /\ request' = [method |-> "HEAD", name |-> name, reference |-> reference]
    /\ store' = store
    /\ response' =
         IF ~is_valid_request(name, reference)
         THEN Response("NotFound", FALSE, "skipped", FALSE, NoManifest, 0)
         ELSE IF manifest_exist(store, name, reference)
         THEN Response("Ok", TRUE, "ok", TRUE, NoManifest, 0)
         ELSE Response("NotFound", TRUE, "ok", FALSE, NoManifest, 0)

\* GET /v2/<name>/manifests/<reference>
get_manifest(name, reference) ==
    /\ UNCHANGED calls
    /\ before' = store
    /\ request' = [method |-> "GET", name |-> name, reference |-> reference]
    /\ store' = store
    /\ IF ~is_valid_request(name, reference)
       THEN response' = Response("NotFound", FALSE, "skipped", FALSE, NoManifest, 0)
       ELSE \E found \in manifest(store, name, reference, {}) :
              response' =
                CASE found.kind = "ok" ->
                         Response("Ok", TRUE, "ok", TRUE, found.manifest, 0)
                  [] found.kind = "overflow" ->
                         Response("Aborted", TRUE, "overflow", FALSE, NoManifest, 0)
                  [] OTHER ->
                         \* .expect("couldn't find manifest") on Err, or a panic below
                         Response("InternalServerError", TRUE,
                                  IF found.kind = "err" THEN "err" ELSE "panic",
                                  FALSE, NoManifest, 0)

\* DELETE /v2/<name>/manifests/<reference>
delete_manifest(name, reference) ==
    /\ UNCHANGED calls
    /\ before' = store
    /\ request' = [method |-> "DELETE", name |-> name, reference |-> reference]
    /\ IF ~is_valid_request(name, reference)
       THEN /\ store' = store
            /\ response' = Response("NotFound", FALSE, "skipped", FALSE, NoManifest, 0)
       ELSE \E done \in delete(store, name, reference) :
              /\ store' = done.store
              /\ response' =
                   IF done.kind = "ok"
                   THEN Response(IF done.count > 0 THEN "Accepted" ELSE "NotFound",
                                 TRUE, "ok", FALSE, NoManifest, done.count)
                   ELSE Response("InternalServerError", TRUE, "panic", FALSE, NoManifest, 0)

Next ==
    \/ \E rq \in Requests : check_manifest(rq[1], rq[2])
    \/ \E rq \in Requests : get_manifest(rq[1], rq[2])
    \/ \E rq \in Requests : delete_manifest(rq[1], rq[2])

Spec == Init /\ [][Next]_vars

(***************************************************************************)
(* Stores with many aliasing tags: digest LargeDigest is aliased by the    *)
(* first k tags of an enumeration, each with its manifest key, and may or  *)
(* may not have a manifest under its own key.                              *)
(***************************************************************************)
\* Largest number of aliasing tags.
MaxAliases == 128

TagChars == <<"a", "b", "c", "r", "s", "x", "y", "0", "1", "A", "R", "_">>

\* The i-th tag: two characters of TagChars.
IndexedTag(i) ==
    <<TagChars[((i - 1) \div Len(TagChars)) + 1], TagChars[((i - 1) % Len(TagChars)) + 1]>>

LargeDigest == <<"s", ":", "x">>

LargeStore(k, keyed) ==
    LET m == MakeManifest(2, "m", LargeDigest)
        tags == {IndexedTag(i) : i \in 1..k}
        keys == {generate_manifest_key(Repository, t) : t \in tags}
                  \cup (IF keyed THEN {generate_manifest_key(Repository, LargeDigest)} ELSE {})
    IN  [key \in keys \cup {generate_alias_key(Repository, LargeDigest)}
           |-> IF key \in keys THEN StringValue(Serialize(m)) ELSE SetValue(tags)]

LargeRequests == {<<Repository, LargeDigest>>, <<Repository, IndexedTag(1)>>}

InitLarge ==
    /\ \E k \in 1..MaxAliases, keyed \in BOOLEAN : store = LargeStore(k, keyed)
    /\ before = store
    /\ request = [method |-> "none", name |-> <<>>, reference |-> <<>>]
    /\ response = Response("none", FALSE, "none", FALSE, NoManifest, 0)
    /\ calls = NoCalls

NextLarge ==
    \/ \E rq \in LargeRequests : check_manifest(rq[1], rq[2])
    \/ \E rq \in LargeRequests : get_manifest(rq[1], rq[2])
    \/ \E rq \in LargeRequests : delete_manifest(rq[1], rq[2])

SpecLarge == InitLarge /\ [][NextLarge]_vars

(***************************************************************************)
(* Vocabulary of the properties.                                           *)
(***************************************************************************)
ReqName == request.name
ReqRef == request.reference

\* The last request was `method` and passed the validator.
Served(method) == request.method = method /\ response.connected

HasManifestKey(s, n, r) == generate_manifest_key(n, r) \in DOMAIN s
HasAliasKey(s, n, r) == generate_alias_key(n, r) \in DOMAIN s

\* aliases(n, d) in store s
AliasSet(s, n, d) ==
    IF HasAliasKey(s, n, d) THEN s[generate_alias_key(n, d)].members ELSE {}

\* The manifest stored under the manifest key of (n, r), which exists.
StoredAt(s, n, r) == Deserialize(s[generate_manifest_key(n, r)].bytes).manifest

\* Tag t aliases digest d: its key holds a manifest of d and it is in aliases(n, d).
Aliasing(s, n, t, d) ==
    /\ HasManifestKey(s, n, t)
    /\ StoredAt(s, n, t).config.digest = d
    /\ t \in AliasSet(s, n, d)

KeysRemoved == Cardinality(DOMAIN before \ DOMAIN store)

(***************************************************************************)
(* C1. Multi-alias cascade: when the manifest keys of digest d and of tags *)
(* t1 and t2 exist and aliases(name, d) = {t1, t2}, DELETE by d removes    *)
(* the three manifest keys and the alias set, returns a count >= 3, and    *)
(* afterwards exists is false for t1, t2 and d.                            *)
(***************************************************************************)
C1_Case(t1, t2) ==
    /\ Served("DELETE")
    /\ is_accepted_digest(ReqRef)
    /\ t1 # t2
    /\ HasManifestKey(before, ReqName, ReqRef)
    /\ HasManifestKey(before, ReqName, t1)
    /\ HasManifestKey(before, ReqName, t2)
    /\ AliasSet(before, ReqName, ReqRef) = {t1, t2}

C1_MultiAliasCascade ==
    \A t1, t2 \in Tags :
        C1_Case(t1, t2) =>
            /\ response.kind = "ok"
            /\ response.count >= 3
            /\ \A r \in {ReqRef, t1, t2} :
                   /\ ~HasManifestKey(store, ReqName, r)
                   /\ ~manifest_exist(store, ReqName, r)
            /\ ~HasAliasKey(store, ReqName, ReqRef)

C1_Witness ==
    /\ \E t1, t2 \in Tags : C1_Case(t1, t2)
    /\ response.count = 3
    /\ response.status = "Accepted"

(***************************************************************************)
(* C2. Sibling preservation: when tags t1 and t2 both alias digest d,      *)
(* DELETE by t1 returns a positive count and makes exists(t1) false; the   *)
(* manifest key of t2 is untouched, t2 stays in aliases(name, d), and      *)
(* exists(t2), resolve(t2) and resolve(d) succeed with the results they    *)
(* had before.                                                             *)
(***************************************************************************)
C2_Case(t2, d) ==
    /\ Served("DELETE")
    /\ is_tag_name_valid(ReqRef)
    /\ t2 # ReqRef
    /\ Aliasing(before, ReqName, ReqRef, d)
    /\ Aliasing(before, ReqName, t2, d)

C2_SiblingPreservation ==
    \A t2 \in Tags, d \in Digests :
        C2_Case(t2, d) =>
            /\ response.kind = "ok"
            /\ response.count > 0
            /\ ~manifest_exist(store, ReqName, ReqRef)
            /\ Val(store, generate_manifest_key(ReqName, t2))
                 = Val(before, generate_manifest_key(ReqName, t2))
            /\ t2 \in AliasSet(store, ReqName, d)
            /\ manifest_exist(store, ReqName, t2)
            /\ \A r \in {t2, d} :
                   /\ manifest(store, ReqName, r, {}) = manifest(before, ReqName, r, {})
                   /\ \A found \in manifest(store, ReqName, r, {}) : found.kind = "ok"

C2_Witness ==
    /\ \E t2 \in Tags, d \in Digests :
           C2_Case(t2, d) /\ ~HasManifestKey(before, ReqName, d)
    /\ response.count = 1

(***************************************************************************)
(* C3. For a digest whose manifest is stored under the digest key and      *)
(* which has no alias set: exists is true, resolve returns that manifest,  *)
(* DELETE returns a count of exactly 1 and exists is false afterwards.     *)
(***************************************************************************)
C3_Case ==
    /\ response.connected
    /\ is_accepted_digest(ReqRef)
    /\ HasManifestKey(before, ReqName, ReqRef)
    /\ ~HasAliasKey(before, ReqName, ReqRef)

C3_UnaliasedDigest ==
    C3_Case =>
        /\ request.method = "HEAD" => response.found
        /\ request.method = "GET" =>
               /\ response.kind = "ok"
               /\ response.manifest = StoredAt(before, ReqName, ReqRef)
        /\ request.method = "DELETE" =>
               /\ response.kind = "ok"
               /\ response.count = 1
               /\ ~manifest_exist(store, ReqName, ReqRef)

(***************************************************************************)
(* C6. exists(name, reference) is true exactly when the manifest key or    *)
(* the alias-set key of (name, reference) exists; it is false on an empty  *)
(* store.                                                                  *)
(***************************************************************************)
C6_ExistsIffKeyOrAliasSet ==
    Served("HEAD") =>
        /\ response.found
             = (HasManifestKey(before, ReqName, ReqRef) \/ HasAliasKey(before, ReqName, ReqRef))
        /\ response.status = (IF response.found THEN "Ok" ELSE "NotFound")
        /\ DOMAIN before = {} => ~response.found

C6_Witness ==
    /\ Served("HEAD")
    /\ response.found
    /\ ~HasManifestKey(before, ReqName, ReqRef)
    /\ HasAliasKey(before, ReqName, ReqRef)

(***************************************************************************)
(* C8. Invalid input short-circuit: a request whose name fails the name    *)
(* grammar (an upper-case letter) or whose reference fails both the tag    *)
(* and the digest grammar (the empty string, an upper-case algorithm       *)
(* before the colon) is answered not-found, false, count 0, without a      *)
(* connection being taken, and the store is unchanged.                     *)
(***************************************************************************)
Rejected ==
    {<<<<"R">>, <<"a">>>>, <<Repository, <<>>>>, <<Repository, <<"A", ":", "x">>>>}

C8_InvalidShortCircuit ==
    (request.method # "none" /\ <<ReqName, ReqRef>> \in Rejected) =>
        /\ response.status = "NotFound"
        /\ ~response.found
        /\ response.manifest = NoManifest
        /\ response.count = 0
        /\ ~response.connected
        /\ store = before

C8_Witness ==
    /\ request.method = "DELETE"
    /\ ReqRef = <<>>
    /\ DOMAIN before # {}
    /\ response.status = "NotFound"

(***************************************************************************)
(* C9. DELETE of a valid (name, reference) that has neither a manifest key *)
(* nor an alias-set key returns 0, is reported as not found, and leaves    *)
(* the store as it was.                                                    *)
(***************************************************************************)
C9_Case ==
    /\ Served("DELETE")
    /\ ~HasManifestKey(before, ReqName, ReqRef)
    /\ ~HasAliasKey(before, ReqName, ReqRef)

C9_DeleteMissingIsNoOp ==
    C9_Case =>
        /\ response.kind = "ok"
        /\ response.count = 0
        /\ response.status = "NotFound"
        /\ store = before

C9_Witness ==
    /\ C9_Case
    /\ is_accepted_digest(ReqRef)
    /\ DOMAIN before # {}
    /\ response.status = "NotFound"

(***************************************************************************)
(* C4. Idempotent delete: for a (name, reference) that exists, DELETE      *)
(* twice in a row, with no other request in between, returns a positive    *)
(* count the first time and 0 the second time.                             *)
(***************************************************************************)
C4_IdempotentDelete ==
    [][(/\ Served("DELETE")
        /\ manifest_exist(before, ReqName, ReqRef)
        /\ request' = request)
       => (/\ response.kind = "ok"
           /\ response.count > 0
           /\ response'.kind = "ok"
           /\ response'.count = 0)]_vars

(***************************************************************************)
(* C5. When manifest m is stored under the tag key (name, t), t is in the  *)
(* alias set of m's config digest d and no manifest is stored under the    *)
(* digest key, exists is true for t and for d, and resolve returns exactly *)
(* m for t and for d.                                                      *)
(***************************************************************************)
C5_Case(t) ==
    /\ response.connected
    /\ HasManifestKey(before, ReqName, t)
    /\ t \in AliasSet(before, ReqName, StoredAt(before, ReqName, t).config.digest)
    /\ ~HasManifestKey(before, ReqName, StoredAt(before, ReqName, t).config.digest)
    /\ ReqRef \in {t, StoredAt(before, ReqName, t).config.digest}

C5_Answer(t) ==
    /\ request.method = "HEAD" => response.found
    /\ request.method = "GET" =>
           /\ response.kind = "ok"
           /\ response.status = "Ok"
           /\ response.manifest = StoredAt(before, ReqName, t)

\* The claim as stated.
C5_ResolveThroughAlias ==
    \A t \in Tags : C5_Case(t) => C5_Answer(t)

\* Every other member of the alias set that exists holds m too.
C5_SiblingsAgree(t) ==
    \A a \in AliasSet(before, ReqName, StoredAt(before, ReqName, t).config.digest) :
        manifest_exist(before, ReqName, a) =>
            /\ HasManifestKey(before, ReqName, a)
            /\ StoredAt(before, ReqName, a) = StoredAt(before, ReqName, t)

\* C5 as amended: the claim, when every member of aliases(name, d) that
\* exists holds a manifest equal to m.
C5_ResolveThroughAgreeingAlias ==
    \A t \in Tags : (C5_Case(t) /\ C5_SiblingsAgree(t)) => C5_Answer(t)

C5_Witness ==
    /\ request.method = "GET"
    /\ is_accepted_digest(ReqRef)
    /\ \E t \in Tags :
           /\ C5_Case(t)
           /\ C5_SiblingsAgree(t)
           /\ Cardinality(AliasSet(before, ReqName, ReqRef)) = 2
           /\ response.manifest = StoredAt(before, ReqName, t)

(***************************************************************************)
(* C7. resolve ends with NotFound, an error value returned to the caller   *)
(* and not a crash, whenever the manifest key is missing and the alias set *)
(* of (name, reference) is absent, empty or has no member that exists.     *)
(***************************************************************************)
C7_ResolveNotFound ==
    (/\ Served("GET")
     /\ ~HasManifestKey(before, ReqName, ReqRef)
     /\ \A a \in AliasSet(before, ReqName, ReqRef) : ~manifest_exist(before, ReqName, a))
    => response.kind = "err"

(***************************************************************************)
(* C10. DELETE by a digest that has no manifest under its own key but a    *)
(* non-empty alias set removes the manifest key of every tag of the set    *)
(* and the set itself, returns a positive count equal to the number of     *)
(* keys it removed, and afterwards exists is false for the digest and for  *)
(* every tag that was in the set.                                          *)
(***************************************************************************)
C10_Case ==
    /\ Served("DELETE")
    /\ is_accepted_digest(ReqRef)
    /\ ~HasManifestKey(before, ReqName, ReqRef)
    /\ AliasSet(before, ReqName, ReqRef) # {}

C10_DeleteByAliasedDigest ==
    C10_Case =>
        /\ response.kind = "ok"
        /\ response.count > 0
        /\ response.count = KeysRemoved
        /\ ~HasAliasKey(store, ReqName, ReqRef)
        /\ ~manifest_exist(store, ReqName, ReqRef)
        /\ \A t \in AliasSet(before, ReqName, ReqRef) :
               /\ ~HasManifestKey(store, ReqName, t)
               /\ ~manifest_exist(store, ReqName, t)

(***************************************************************************)
(* C11. Single-tag delete: when tag is the only tag aliasing digest d,     *)
(* DELETE by tag returns a positive count, removes the tag's manifest key  *)
(* and removes tag from aliases(name, d); a manifest stored under the      *)
(* digest key, if there is one, still exists and resolves.  A DELETE by d  *)
(* that follows leaves neither d nor tag existing.                         *)
(***************************************************************************)
C11_Case(d) ==
    /\ Served("DELETE")
    /\ is_tag_name_valid(ReqRef)
    /\ Aliasing(before, ReqName, ReqRef, d)
    /\ AliasSet(before, ReqName, d) = {ReqRef}

C11_AfterTag(d) ==
    /\ response.kind = "ok"
    /\ response.count > 0
    /\ ~HasManifestKey(store, ReqName, ReqRef)
    /\ ReqRef \notin AliasSet(store, ReqName, d)
    /\ HasManifestKey(before, ReqName, d) =>
           /\ Val(store, generate_manifest_key(ReqName, d))
                = Val(before, generate_manifest_key(ReqName, d))
           /\ manifest_exist(store, ReqName, d)
           /\ manifest(store, ReqName, d, {})
                = {[kind |-> "ok", manifest |-> StoredAt(before, ReqName, d)]}

C11_SingleTagDelete ==
    [][\A d \in Digests :
          C11_Case(d) =>
              /\ C11_AfterTag(d)
              /\ (request' = [method |-> "DELETE", name |-> ReqName, reference |-> d]) =>
                     /\ ~manifest_exist(store', ReqName, d)
                     /\ ~manifest_exist(store', ReqName, ReqRef)]_vars

C11_Witness ==
    \E d \in Digests :
        /\ C11_Case(d)
        /\ HasManifestKey(before, ReqName, d)
        /\ HasManifestKey(store, ReqName, d)
        /\ response.count = 1

(***************************************************************************)
(* The alias invariant of a store: (i) every tag's manifest key holds a    *)
(* manifest whose config digest d has the tag in aliases(name, d), and     *)
(* (ii) every member of every alias set has a manifest key whose manifest  *)
(* has that config digest.  add_manifest writes stores of this shape.      *)
(***************************************************************************)
LargeTags == {IndexedTag(i) : i \in 1..MaxAliases}

AliasInvariantI(s) ==
    \A t \in Tags \cup LargeTags :
        HasManifestKey(s, Repository, t) =>
            t \in AliasSet(s, Repository, StoredAt(s, Repository, t).config.digest)

AliasInvariantII(s) ==
    \A d \in References : \A t \in AliasSet(s, Repository, d) :
        /\ HasManifestKey(s, Repository, t)
        /\ StoredAt(s, Repository, t).config.digest = d

AliasInvariant(s) == AliasInvariantI(s) /\ AliasInvariantII(s)

(***************************************************************************)
(* The engine calls followed one backend command at a time.  Each client   *)
(* runs one call on a connection of the pool; Redis executes each command  *)
(* atomically and nothing groups the commands of a call.  A command sent   *)
(* over a lossy connection either executes or fails with an I/O error      *)
(* before it executes.                                                     *)
(***************************************************************************)
Clients == {1, 2}

Outcome(kind, found, m, count) ==
    [kind |-> kind, found |-> found, manifest |-> m, count |-> count]

\* The call of a handler on a valid request, before its first command.
StartCall(op, name, reference, lossy) ==
    [op |-> op, name |-> name, reference |-> reference, lossy |-> lossy,
     pc |-> CASE op = "exists" -> "exists_key"
              [] op = "resolve" -> "get"
              [] op = "delete" -> "getdel"
              [] OTHER -> "done",
     cur |-> reference,        \* reference of the current manifest() frame
     depth |-> 0,              \* recursive calls of manifest() made so far
     probe |-> reference,      \* reference manifest_exist is asked about
     todo |-> {},              \* alias members not yet visited
     exists_key |-> FALSE,
     got |-> NoManifest,
     sum |-> 0,
     failed |-> FALSE,         \* a command of this call failed
     outcome |-> Outcome("none", FALSE, NoManifest, 0)]

Finish(c, kind, found, m, count) ==
    [c EXCEPT !.pc = "done", !.outcome = Outcome(kind, found, m, count)]

Fail(c) == [c EXCEPT !.failed = TRUE]

\* Whether the next command of call c goes through.
Link(c) == IF c.lossy THEN BOOLEAN ELSE {TRUE}

Step(p, c, s) ==
    /\ calls' = [calls EXCEPT ![p] = c]
    /\ store' = s
    /\ UNCHANGED <<before, request, response>>

\* manifest_exist: con.exists(key).expect("connection with redis")
manifest_exist_key(p) ==
    LET c == calls[p]
    IN  /\ c.pc = "exists_key"
        /\ \E up \in Link(c) :
              IF up
              THEN Step(p, [c EXCEPT !.pc = "exists_alias",
                                     !.exists_key = EXISTS(store, generate_manifest_key(c.name, c.probe))],
                        store)
              ELSE Step(p, Finish(Fail(c), "panic", FALSE, NoManifest, 0), store)

\* manifest_exist: con.exists(alias_key).expect("connection with redis"),
\* then Ok(exists_key || exists_alias) to check_manifest or to the filter
\* of manifest(), which follows the first live member and drops the others.
manifest_exist_alias(p) ==
    LET c == calls[p]
        live == c.exists_key \/ EXISTS(store, generate_alias_key(c.name, c.probe))
        rest == c.todo \ {c.probe}
    IN  /\ c.pc = "exists_alias"
        /\ \E up \in Link(c) :
              CASE ~up -> Step(p, Finish(Fail(c), "panic", FALSE, NoManifest, 0), store)
                [] up /\ c.op = "exists" ->
                      Step(p, Finish(c, "ok", live, NoManifest, 0), store)
                [] up /\ c.op # "exists" /\ live ->
                      Step(p, [c EXCEPT !.pc = "get", !.cur = c.probe,
                                        !.depth = c.depth + 1, !.todo = {}], store)
                [] up /\ c.op # "exists" /\ ~live /\ rest = {} ->
                      \* .expect("couldn't find an existing alias")
                      Step(p, Finish(c, "panic", FALSE, NoManifest, 0), store)
                [] OTHER ->
                      \E a \in rest :
                          Step(p, [c EXCEPT !.pc = "exists_key", !.probe = a,
                                            !.todo = rest], store)

\* manifest that fetches the key with GETDEL
manifest_get_removing(p) ==
    LET c == calls[p]
        getdel == GETDEL(store, generate_manifest_key(c.name, c.cur))
        got == from_redis_value(getdel.reply)
    IN  /\ c.pc = "get"
        /\ IF got.kind = "ok"
           THEN Step(p, Finish(c, "ok", TRUE, got.manifest, 0), getdel.store)
           ELSE Step(p, [c EXCEPT !.pc = "smembers"], getdel.store)

\* manifest that takes every GET for a miss
manifest_get_missed(p) ==
    /\ calls[p].pc = "get"
    /\ Step(p, [calls[p] EXCEPT !.pc = "smembers"], store)

\* manifest: con.get(key); any Err goes on to the alias set
manifest_get(p) ==
    LET c == calls[p]
        got == from_redis_value(GET(store, generate_manifest_key(c.name, c.cur)))
    IN  /\ c.pc = "get"
        /\ \E up \in Link(c) :
              CASE ~up -> Step(p, [Fail(c) EXCEPT !.pc = "smembers"], store)
                [] up /\ got.kind = "ok" ->
                      Step(p, Finish(c, "ok", TRUE, got.manifest, 0), store)
                [] up /\ got.kind = "panic" ->
                      Step(p, Finish(c, "panic", FALSE, NoManifest, 0), store)
                [] OTHER -> Step(p, [c EXCEPT !.pc = "smembers"], store)

\* manifest: con.smembers(alias_key); Err(_) => bail!("Couldn't find manifest")
manifest_smembers(p) ==
    LET c == calls[p]
        search_alias == SMEMBERS(store, generate_alias_key(c.name, c.cur))
    IN  /\ c.pc = "smembers"
        /\ \E up \in Link(c) :
              CASE ~up -> Step(p, Finish(Fail(c), "err", FALSE, NoManifest, 0), store)
                [] up /\ search_alias.kind # "ok" ->
                      Step(p, Finish(c, "err", FALSE, NoManifest, 0), store)
                [] up /\ search_alias.kind = "ok" /\ search_alias.members = {} ->
                      \* .expect("couldn't find an existing alias")
                      Step(p, Finish(c, "panic", FALSE, NoManifest, 0), store)
                [] OTHER ->
                      \E a \in search_alias.members :
                          Step(p, [c EXCEPT !.pc = "exists_key", !.probe = a,
                                            !.todo = search_alias.members], store)

\* delete: GETDEL key, .map(from_redis_value).unwrap()
delete_getdel(p) ==
    LET c == calls[p]
        getdel == GETDEL(store, generate_manifest_key(c.name, c.reference))
        result == from_redis_value(getdel.reply)
    IN  /\ c.pc = "getdel"
        /\ \E up \in Link(c) :
              CASE ~up -> Step(p, Finish(Fail(c), "panic", FALSE, NoManifest, 0), store)
                [] up /\ getdel.reply.kind = "error" ->
                      Step(p, Finish(c, "panic", FALSE, NoManifest, 0), store)
                [] up /\ getdel.reply.kind # "error" /\ result.kind = "panic" ->
                      Step(p, Finish(c, "panic", FALSE, NoManifest, 0), getdel.store)
                [] up /\ getdel.reply.kind # "error" /\ result.kind = "ok"
                      /\ ~is_accepted_digest(c.reference) ->
                      Step(p, [c EXCEPT !.pc = "srem", !.got = result.manifest],
                           getdel.store)
                [] OTHER -> Step(p, [c EXCEPT !.pc = "search_alias"], getdel.store)

\* search_alias_and_delete_it: con.smembers(alias_key); Err(_) => Ok(0)
search_alias_smembers(p) ==
    LET c == calls[p]
        search_alias == SMEMBERS(store, generate_alias_key(c.name, c.reference))
    IN  /\ c.pc = "search_alias"
        /\ \E up \in Link(c) :
              CASE ~up -> Step(p, Finish(Fail(c), "ok", FALSE, NoManifest, 0), store)
                [] up /\ search_alias.kind # "ok" ->
                      Step(p, Finish(c, "ok", FALSE, NoManifest, 0), store)
                [] up /\ search_alias.kind = "ok" /\ search_alias.members = {} ->
                      Step(p, [c EXCEPT !.pc = "del_alias_key"], store)
                [] OTHER ->
                      Step(p, [c EXCEPT !.pc = "del_alias",
                                        !.todo = search_alias.members], store)

\* The members of a listing that may come next.  Redis lists a set in an
\* order it does not specify: every order of a small set is followed, and
\* one order of a set with more members than the stores of Spec hold.
Listed(todo) ==
    IF Cardinality(todo) <= MaxStore THEN todo ELSE {CHOOSE a \in todo : TRUE}

\* delete_alias: sum += con.del(key_to_be_deleted).unwrap(), one member of
\* the listing after the other.  The addition that passes I8Max panics in a
\* build with overflow checks and wraps in one without.
delete_alias_del(p) ==
    LET c == calls[p]
    IN  /\ c.pc = "del_alias"
        /\ \E up \in Link(c) :
              IF ~up
              THEN Step(p, Finish(Fail(c), "panic", FALSE, NoManifest, 0), store)
              ELSE \E a \in Listed(c.todo) :
                     LET del == DEL(store, generate_manifest_key(c.name, a))
                         sum == c.sum + del.count
                     IN  \/ /\ sum > I8Max
                            /\ Step(p, Finish(c, "panic", FALSE, NoManifest, 0), del.store)
                         \/ Step(p, [c EXCEPT !.sum = I8Wrap(sum),
                                              !.todo = c.todo \ {a},
                                              !.pc = IF c.todo = {a} THEN "del_alias_key"
                                                     ELSE "del_alias"],
                                 del.store)

\* delete_alias_key: con.del(alias_key).unwrap(), added to the sum
delete_alias_key_del(p) ==
    LET c == calls[p]
        del == DEL(store, generate_alias_key(c.name, c.reference))
    IN  /\ c.pc = "del_alias_key"
        /\ \E up \in Link(c) :
              IF ~up
              THEN Step(p, Finish(Fail(c), "panic", FALSE, NoManifest, 0), store)
              ELSE \/ /\ c.sum + del.count > I8Max
                      /\ Step(p, Finish(c, "panic", FALSE, NoManifest, 0), del.store)
                   \/ Step(p, Finish(c, "ok", FALSE, NoManifest, I8Wrap(c.sum + del.count)),
                           del.store)

\* remove_tag_relation_from_digest: con.srem(alias_key, reference).unwrap()
remove_tag_relation_srem(p) ==
    LET c == calls[p]
        srem == SREM(store, generate_alias_key(c.name, c.got.config.digest),
                         c.reference)
    IN  /\ c.pc = "srem"
        /\ \E up \in Link(c) :
              CASE ~up -> Step(p, Finish(Fail(c), "panic", FALSE, NoManifest, 0), store)
                [] up /\ srem.kind # "ok" ->
                      Step(p, Finish(c, "panic", FALSE, NoManifest, 0), store)
                [] OTHER ->
                      Step(p, Finish(c, "ok", FALSE, NoManifest, srem.count),
                           srem.store)

NextCalls ==
    \E p \in Clients :
        \/ manifest_exist_key(p)
        \/ manifest_exist_alias(p)
        \/ manifest_get(p)
        \/ manifest_smembers(p)
        \/ delete_getdel(p)
        \/ search_alias_smembers(p)
        \/ delete_alias_del(p)
        \/ delete_alias_key_del(p)
        \/ remove_tag_relation_srem(p)

\* The status the handler answers with when its engine call is done.
StatusOf(c) ==
    CASE c.outcome.kind = "panic" -> "InternalServerError"
      [] c.op = "exists" -> IF c.outcome.found THEN "Ok" ELSE "NotFound"
      [] c.op = "resolve" /\ c.outcome.kind = "ok" -> "Ok"
      [] c.op = "resolve" -> "InternalServerError"
      [] c.op = "delete" -> IF c.outcome.count > 0 THEN "Accepted" ELSE "NotFound"
      [] OTHER -> "none"

Idle == StartCall("none", <<>>, <<>>, FALSE)

AliasedStores == {s \in InitialStores : AliasInvariant(s)}

\* One client, whose connection may fail at any command.
InitLossy ==
    /\ store \in InitialStores
    /\ before = store
    /\ request = [method |-> "none", name |-> <<>>, reference |-> <<>>]
    /\ response = Response("none", FALSE, "none", FALSE, NoManifest, 0)
    /\ \E op \in {"exists", "resolve", "delete"}, r \in References :
          calls = [p \in Clients |-> IF p = 1 THEN StartCall(op, Repository, r, TRUE)
                                     ELSE Idle]

SpecLossy == InitLossy /\ [][NextCalls]_vars

\* Two clients on sound connections: a delete next to any call on a small
\* store, or the delete of a tag next to the delete of its digest in a
\* family of MaxAliases tags.
InitConcurrent ==
    /\ request = [method |-> "none", name |-> <<>>, reference |-> <<>>]
    /\ response = Response("none", FALSE, "none", FALSE, NoManifest, 0)
    /\ \/ /\ store \in AliasedStores
          /\ \E op \in {"exists", "resolve", "delete"}, r1 \in References, r2 \in References :
                calls = [p \in Clients |->
                            IF p = 1 THEN StartCall(op, Repository, r1, FALSE)
                            ELSE StartCall("delete", Repository, r2, FALSE)]
       \/ /\ \E keyed \in BOOLEAN : store = LargeStore(MaxAliases, keyed)
          /\ calls = [p \in Clients |->
                         IF p = 1 THEN StartCall("delete", Repository, LargeDigest, FALSE)
                         ELSE StartCall("delete", Repository, IndexedTag(1), FALSE)]
    /\ before = store

SpecConcurrent == InitConcurrent /\ [][NextCalls]_vars

(***************************************************************************)
(* C12. A backend communication failure during exists, resolve or delete   *)
(* is reported as a failure distinct from NotFound and from a count of 0:  *)
(* a finished call one of whose commands failed has not answered with a    *)
(* manifest, a boolean, a count or the "Couldn't find manifest" error.     *)
(***************************************************************************)
C12_BackendFailureReported ==
    \A p \in Clients :
        (calls[p].pc = "done" /\ calls[p].failed) =>
            /\ calls[p].outcome.kind \notin {"ok", "err"}
            /\ StatusOf(calls[p]) # "NotFound"

(***************************************************************************)
(* Stores nothing in this program wrote: a manifest key may hold bytes     *)
(* that bincode cannot decode, and an alias set may be keyed by any        *)
(* reference and list any reference, itself included.                      *)
(***************************************************************************)
MaxCorrupt == 2

\* The encoding of a manifest cut short.
TruncatedBytes == <<2, "m">>

CorruptEntries ==
    {[kind |-> "key", reference |-> r, bytes |-> b, member |-> <<>>] :
        r \in References, b \in StoredBytes \cup {TruncatedBytes}}
    \cup {[kind |-> "member", reference |-> r, bytes |-> <<>>, member |-> a] :
            r \in References, a \in References}

\* The store holding the entries E.
CorruptStore(E) ==
    [k \in {generate_manifest_key(Repository, e.reference) : e \in {x \in E : x.kind = "key"}}
           \cup {generate_alias_key(Repository, e.reference) : e \in {x \in E : x.kind = "member"}}
       |-> IF \E e \in E : e.kind = "key" /\ k = generate_manifest_key(Repository, e.reference)
           THEN StringValue((CHOOSE e \in E :
                                e.kind = "key"
                                /\ k = generate_manifest_key(Repository, e.reference)).bytes)
           ELSE SetValue({e.member : e \in {x \in E : x.kind = "member"
                                              /\ k = generate_alias_key(Repository, x.reference)}})]

CorruptStores ==
    {CorruptStore(E) :
        E \in {F \in UNION {SubsetsOfSize(CorruptEntries, n) : n \in 0..MaxCorrupt} :
                 \A e \in F, f \in F :
                     (e.kind = "key" /\ f.kind = "key" /\ e.reference = f.reference)
                         => e = f}}

CorruptRequests == {<<Repository, r>> : r \in References}

InitCorrupt ==
    /\ store \in CorruptStores
    /\ before = store
    /\ request = [method |-> "none", name |-> <<>>, reference |-> <<>>]
    /\ response = Response("none", FALSE, "none", FALSE, NoManifest, 0)
    /\ calls = NoCalls

NextCorrupt ==
    \/ \E rq \in CorruptRequests : check_manifest(rq[1], rq[2])
    \/ \E rq \in CorruptRequests : get_manifest(rq[1], rq[2])
    \/ \E rq \in CorruptRequests : delete_manifest(rq[1], rq[2])

SpecCorrupt == InitCorrupt /\ [][NextCorrupt]_vars

(***************************************************************************)
(* C13. When the bytes under the manifest key of the request cannot be     *)
(* decoded, GET and DELETE of that key end with a decode error for that    *)
(* call: the handler does not panic, and every other key keeps its value.  *)
(***************************************************************************)
Undecodable(s, n, r) ==
    /\ HasManifestKey(s, n, r)
    /\ ~Deserialize(s[generate_manifest_key(n, r)].bytes).ok

C13_DecodeErrorReturned ==
    ((Served("GET") \/ Served("DELETE")) /\ Undecodable(before, ReqName, ReqRef)) =>
        /\ response.kind \notin {"panic", "overflow"}
        /\ response.status # "InternalServerError"
        /\ \A k \in DOMAIN before \ {generate_manifest_key(ReqName, ReqRef)} :
               k \in DOMAIN store /\ store[k] = before[k]

(***************************************************************************)
(* C14. The alias invariant is preserved: when the store satisfied (i) and *)
(* (ii) as a request arrived, it satisfies them when the request has been  *)
(* answered.  Every answered request leaves a store the next one starts    *)
(* from, so this covers every sequence of sequential calls.                *)
(***************************************************************************)
C14_AliasInvariantPreserved ==
    (request.method # "none" /\ AliasInvariant(before)) => AliasInvariant(store)

(***************************************************************************)
(* C15. resolve terminates on every store, a corrupted alias graph         *)
(* included: a GET is answered, and a chase that never reaches a manifest  *)
(* key ends with NotFound, not with the recursion running out of stack.    *)
(***************************************************************************)
C15_ResolveTerminates ==
    Served("GET") =>
        /\ response.kind # "overflow"
        /\ response.status \in {"Ok", "NotFound", "InternalServerError"}

(***************************************************************************)
(* C16. In a store that satisfies the alias invariant, and with a backend  *)
(* that answers, resolve follows at most one indirection: by tag it makes  *)
(* no recursive call; by digest it makes at most one, into one member of   *)
(* the digest's alias set, and that call finds the member's manifest key.  *)
(***************************************************************************)
C16_Resolving(c) == c.op = "resolve" /\ ~c.failed /\ AliasInvariant(before)

C16_AtMostOneIndirection ==
    \A p \in Clients :
        LET c == calls[p]
        IN  C16_Resolving(c) =>
              /\ c.depth <= 1
              /\ is_tag_name_valid(c.reference) => c.depth = 0
              /\ c.depth = 1 =>
                    /\ c.cur \in AliasSet(before, c.name, c.reference)
                    /\ HasManifestKey(store, c.name, c.cur)
                    /\ c.pc \in {"get", "done"}
                    /\ c.pc = "done" =>
                          /\ c.outcome.kind = "ok"
                          /\ c.outcome.manifest = StoredAt(before, c.name, c.cur)

C16_Witness ==
    \E p \in Clients :
        /\ C16_Resolving(calls[p])
        /\ is_accepted_digest(calls[p].reference)
        /\ calls[p].pc = "done"
        /\ calls[p].depth = 1
        /\ Cardinality(AliasSet(before, calls[p].name, calls[p].reference)) = 2

(***************************************************************************)
(* C17. Concurrent deletes converge.  From a store satisfying the alias    *)
(* invariant, whatever the interleaving of the backend commands of two     *)
(* deletes, once both are done: no alias-set member lacks a manifest key,  *)
(* no deleted tag is still a member, the store is the one some sequential  *)
(* order of the two deletes ends with, and the counts returned add up to   *)
(* no more than the keys and memberships removed.                          *)
(***************************************************************************)
C17_BothDeleted ==
    /\ AliasInvariant(before)
    /\ \A p \in Clients : calls[p].op = "delete" /\ calls[p].pc = "done"

\* The stores delete(r1) followed by delete(r2) ends with.
C17_Sequential(r1, r2) ==
    UNION {{o2.store : o2 \in delete(o1.store, Repository, r2)} :
              o1 \in delete(before, Repository, r1)}

C17_Memberships(s) ==
    {<<d, t>> \in References \X (References \cup LargeTags) :
        t \in AliasSet(s, Repository, d)}

C17_Removed ==
    Cardinality(DOMAIN before \ DOMAIN store)
      + Cardinality(C17_Memberships(before) \ C17_Memberships(store))

C17_ConcurrentDeletesConverge ==
    C17_BothDeleted =>
        /\ \A d \in References : \A t \in AliasSet(store, Repository, d) :
               HasManifestKey(store, Repository, t)
        /\ \A p \in Clients : \A d \in References :
               is_tag_name_valid(calls[p].reference) =>
                   calls[p].reference \notin AliasSet(store, Repository, d)
        /\ store \in C17_Sequential(calls[1].reference, calls[2].reference)
                       \cup C17_Sequential(calls[2].reference, calls[1].reference)
        /\ calls[1].outcome.count + calls[2].outcome.count <= C17_Removed

\* Both deletes are done and their commands were interleaved: the delete by
\* tag got the manifest from GETDEL, and the delete by digest removed the
\* alias set before the SREM of the tag, which therefore removed nothing.
C17_Witness ==
    /\ C17_BothDeleted
    /\ is_tag_name_valid(calls[1].reference)
    /\ is_accepted_digest(calls[2].reference)
    /\ Aliasing(before, Repository, calls[1].reference, calls[2].reference)
    /\ calls[1].got.config.digest = calls[2].reference
    /\ calls[1].outcome.count = 0
    /\ calls[2].outcome.count > 0

(***************************************************************************)
(* C18. A resolve by digest racing the delete of the aliased tag: when the *)
(* resolve has found the tag live and has gone on to look the tag up, it   *)
(* ends with a manifest stored for that digest or with NotFound, whatever  *)
(* the delete has done in between; it does not crash and does not return a *)
(* manifest of another digest.                                             *)
(***************************************************************************)
C18_Case ==
    /\ calls[1].op = "resolve"
    /\ is_accepted_digest(calls[1].reference)
    /\ calls[1].pc = "done"
    /\ calls[1].depth = 1
    /\ calls[2].op = "delete"
    /\ calls[2].reference = calls[1].cur
    /\ Aliasing(before, Repository, calls[2].reference, calls[1].reference)

C18_ResolveRacingDelete ==
    C18_Case =>
        \/ calls[1].outcome.kind = "err"
        \/ /\ calls[1].outcome.kind = "ok"
           /\ calls[1].outcome.manifest.config.digest = calls[1].reference

(***************************************************************************)
(* C19. Whenever delete returns 0, which delete_manifest reports as        *)
(* NotFound, the call removed nothing: the store after the call is the     *)
(* store before it.                                                        *)
(***************************************************************************)
C19_ZeroCountRemovedNothing ==
    (Served("DELETE") /\ response.kind = "ok" /\ response.count = 0) =>
        store = before

(***************************************************************************)
(* C20. The count of a delete is never negative, whatever the size of the  *)
(* alias set: DELETE by a digest aliased by k tags whose manifest keys     *)
(* exist returns at least k + 1, without overflow, wrap-around or panic of *)
(* the i8 sum.                                                             *)
(***************************************************************************)
C20_AliasingTags ==
    {t \in AliasSet(before, ReqName, ReqRef) : HasManifestKey(before, ReqName, t)}

C20_CountCoversAliases ==
    Served("DELETE") =>
        /\ response.count >= 0
        /\ (is_accepted_digest(ReqRef)
            /\ C20_AliasingTags = AliasSet(before, ReqName, ReqRef)
            /\ C20_AliasingTags # {}) =>
               /\ response.kind = "ok"
               /\ response.count >= Cardinality(C20_AliasingTags) + 1

(***************************************************************************)
(* C21. exists and resolve agree: in the store an answered request leaves, *)
(* when the request started from a store satisfying the alias invariant,   *)
(* exists(name, reference) is true exactly when resolve(name, reference)   *)
(* returns a manifest, for every valid reference.                          *)
(***************************************************************************)
C21_References == References \cup {rq[2] : rq \in LargeRequests}

C21_Resolves(s, r) ==
    \A found \in manifest(s, Repository, r, {}) : found.kind = "ok"

C21_ExistsAgreesWithResolve ==
    (request.method # "none" /\ AliasInvariant(before)) =>
        \A r \in C21_References :
            manifest_exist(store, Repository, r) <=> C21_Resolves(store, r)

(***************************************************************************)
(* C22. exists and resolve are read-only: while and after such a call      *)
(* runs, whether its commands answer or fail and whatever it ends with,    *)
(* every manifest key, alias-set key and alias-set member is as it was     *)
(* when the call started.                                                  *)
(***************************************************************************)
C22_Reading(c) == c.op \in {"exists", "resolve"}

C22_ReadOnly ==
    (\A p \in Clients : C22_Reading(calls[p]) \/ calls[p].op = "none") =>
        store = before

C22_Witness ==
    \E p \in Clients :
        /\ calls[p].op = "resolve"
        /\ calls[p].pc = "done"
        /\ calls[p].outcome.kind = "ok"
        /\ calls[p].depth = 1
        /\ HasManifestKey(store, Repository, calls[p].cur)
        /\ HasAliasKey(store, Repository, calls[p].reference)

(***************************************************************************)
(* One Redis behind two repository names: the requests go to Repository,   *)
(* and the store also holds manifests and alias sets of another name that  *)
(* starts with the same characters.                                        *)
(***************************************************************************)
MaxShared == 3

OtherRepository == <<"r", "/", "a">>

SharedEntries ==
    {[kind |-> "key", name |-> Repository, reference |-> r, bytes |-> b, member |-> <<>>] :
        r \in References, b \in StoredBytes}
    \cup {[kind |-> "member", name |-> Repository, reference |-> d, bytes |-> <<>>, member |-> t] :
            d \in Digests, t \in Tags}
    \cup {[kind |-> "key", name |-> OtherRepository, reference |-> r, bytes |-> b, member |-> <<>>] :
            r \in {<<"a">>, <<"s", ":", "x">>}, b \in StoredBytes}
    \cup {[kind |-> "member", name |-> OtherRepository, reference |-> <<"s", ":", "x">>,
           bytes |-> <<>>, member |-> <<"a">>]}

\* The store holding the entries E.
SharedStore(E) ==
    [k \in {generate_manifest_key(e.name, e.reference) : e \in {x \in E : x.kind = "key"}}
           \cup {generate_alias_key(e.name, e.reference) : e \in {x \in E : x.kind = "member"}}
       |-> IF \E e \in E : e.kind = "key" /\ k = generate_manifest_key(e.name, e.reference)
           THEN StringValue((CHOOSE e \in E :
                                e.kind = "key"
                                /\ k = generate_manifest_key(e.name, e.reference)).bytes)
           ELSE SetValue({e.member : e \in {x \in E : x.kind = "member"
                                              /\ k = generate_alias_key(x.name, x.reference)}})]

SharedStores ==
    {SharedStore(E) :
        E \in {F \in UNION {SubsetsOfSize(SharedEntries, n) : n \in 0..MaxShared} :
                 \A e \in F, f \in F :
                     (e.kind = "key" /\ f.kind = "key"
                      /\ e.name = f.name /\ e.reference = f.reference) => e = f}}

SharedRequests == {<<Repository, r>> : r \in References}

InitShared ==
    /\ store \in SharedStores
    /\ before = store
    /\ request = [method |-> "none", name |-> <<>>, reference |-> <<>>]
    /\ response = Response("none", FALSE, "none", FALSE, NoManifest, 0)
    /\ calls = NoCalls

NextShared ==
    \/ \E rq \in SharedRequests : check_manifest(rq[1], rq[2])
    \/ \E rq \in SharedRequests : get_manifest(rq[1], rq[2])
    \/ \E rq \in SharedRequests : delete_manifest(rq[1], rq[2])

SpecShared == InitShared /\ [][NextShared]_vars

(***************************************************************************)
(* C23. delete is confined to its own family.  DELETE of (name, reference) *)
(* changes only the manifest key of (name, reference), the manifest keys   *)
(* of the tags listed in the alias set of (name, reference), that alias    *)
(* set and, for a tag, the alias set of the deleted manifest's config      *)
(* digest: every other key of the store, those of another repository name  *)
(* and of another digest and its tags included, is there afterwards with   *)
(* the value it had, and no key is added.                                  *)
(***************************************************************************)
C23_Family ==
    {generate_manifest_key(ReqName, ReqRef), generate_alias_key(ReqName, ReqRef)}
    \cup {generate_manifest_key(ReqName, t) : t \in AliasSet(before, ReqName, ReqRef)}
    \cup (IF is_tag_name_valid(ReqRef) /\ HasManifestKey(before, ReqName, ReqRef)
          THEN {generate_alias_key(ReqName, StoredAt(before, ReqName, ReqRef).config.digest)}
          ELSE {})

C23_DeleteConfined ==
    Served("DELETE") =>
        /\ DOMAIN store \subseteq DOMAIN before
        /\ \A k \in DOMAIN before \ C23_Family :
               k \in DOMAIN store /\ store[k] = before[k]

C23_Witness ==
    /\ Served("DELETE")
    /\ is_accepted_digest(ReqRef)
    /\ AliasSet(before, ReqName, ReqRef) # {}
    /\ response.count = 2
    /\ ~HasAliasKey(store, ReqName, ReqRef)
    /\ HasAliasKey(store, OtherRepository, ReqRef)
    /\ AliasSet(store, OtherRepository, ReqRef) = AliasSet(before, ReqName, ReqRef)

(***************************************************************************)
(* C24. Deletion has a single logical outcome under failure: when a        *)
(* backend command of a delete fails, on a store satisfying the alias      *)
(* invariant, the store is left as it was before the call or as the whole  *)
(* delete leaves it; it is not left with the manifest key removed and its  *)
(* tag still a member, nor with tag keys removed and the alias set there.  *)
(***************************************************************************)
C24_Case(c) ==
    /\ c.op = "delete"
    /\ c.pc = "done"
    /\ c.failed
    /\ AliasInvariant(before)

C24_WholeDelete(c) ==
    {done.store : done \in {o \in delete(before, c.name, c.reference) : o.kind = "ok"}}

C24_DeleteAllOrNothing ==
    \A p \in Clients :
        C24_Case(calls[p]) =>
            /\ store = before \/ store \in C24_WholeDelete(calls[p])
            /\ AliasInvariantII(store)

=============================================================================
